---- MODULE Spec2Model ----
(***************************************************************************)
(* PayTag backend: payment ingestion (Circle webhook -> payment -> receipt *)
(* -> autoswap job) and the autoswap worker pool.                          *)
(*                                                                         *)
(* Every database statement of a handler is one atomic step (SQLite runs   *)
(* one statement at a time); the awaits between two statements are the     *)
(* points where another request or worker may run.                        *)
(***************************************************************************)
EXTENDS Integers, Sequences, FiniteSets, TLC

VARIABLES payments, receipts, swapJobs, users, walrus, del, wk, now,
          submissions, claimCount, probe, paytags, otpCodes, creates, verifies

vars ==
    <<payments, receipts, swapJobs, users, walrus, del, wk, now, submissions,
      claimCount, probe, paytags, otpCodes, creates, verifies>>

\* the tables and the calls of the account side (PayTags, passcodes)
account == <<paytags, otpCodes, creates, verifies>>
tables == <<payments, receipts, swapJobs>>

(***************************************************************************)
(* Bounds of the model.                                                    *)
(***************************************************************************)
\* webhook requests handled (one after another or at the same time)
MaxDeliveries == 2
\* values nanoid(12) can return
NTokens == 2

Deliveries == 1..MaxDeliveries
Tokens == 1..NTokens

\* an absent (undefined / null) field
NULL == "<null>"

(***************************************************************************)
(* Decimal strings.  An amount arrives as text ("0.10"); it is modelled as *)
(* the sequence of its characters.                                         *)
(***************************************************************************)
\* fraction digits of the base unit; viem's parseEther has 18, the model
\* counts in units of 10^-Decimals ETH
Decimals == 2

Digit(c) ==
    CASE c = "0" -> 0 [] c = "1" -> 1 [] c = "2" -> 2 [] c = "3" -> 3
      [] c = "4" -> 4 [] c = "5" -> 5 [] c = "6" -> 6 [] c = "7" -> 7
      [] c = "8" -> 8 [] c = "9" -> 9

RECURSIVE DigitsValue(_)
DigitsValue(ds) ==
    IF ds = <<>> THEN 0
    ELSE DigitsValue(SubSeq(ds, 1, Len(ds) - 1)) * 10 + Digit(ds[Len(ds)])

RECURSIVE Pow10(_)
Pow10(n) ==
    IF n <= 0 THEN 1 ELSE 10 * Pow10(n - 1)

DotPos(s) ==
    IF \E i \in 1..Len(s) : s[i] = "."
    THEN CHOOSE i \in 1..Len(s) : s[i] = "."
    ELSE Len(s) + 1

\* viem parseEther: decimal text -> integer count of base units
parseEther(s) ==
    LET p == DotPos(s)
        whole == SubSeq(s, 1, p - 1)
        frac == SubSeq(s, p + 1, Len(s))
    IN DigitsValue(whole) * Pow10(Decimals)
         + DigitsValue(frac) * Pow10(Decimals - Len(frac))

A010 == <<"0", ".", "1", "0">>
A025 == <<"0", ".", "2", "5">>
A030 == <<"0", ".", "3", "0">>
AZero == <<"0">>

(***************************************************************************)
(* The identity side (external collaborator): one user owning one PayTag   *)
(* bound to one custodial wallet.                                          *)
(***************************************************************************)
Paytags ==
    { [id |-> "pt1", userId |-> "u1", handle |-> "alice",
       circleWalletId |-> "w1", circleWalletAddress |-> "0xA"] }

UserIds == {"u1"}

(***************************************************************************)
(* Circle notifications (the parsed JSON payload of a webhook).            *)
(***************************************************************************)
Notification(id, type, state, dest, amounts, chain, token, hash) ==
    [notificationType |-> type,
     notification |-> [id |-> id, state |-> state, destinationAddress |-> dest,
                       amounts |-> amounts, blockchain |-> chain,
                       tokenId |-> token, txHash |-> hash]]

\* no payload (a request that did not get as far as being processed)
NoPayload ==
    Notification(NULL, NULL, NULL, NULL, <<>>, NULL, NULL, NULL)

TokenETH == "979869da"
TokenUSDC == "5797fbd6"

\* the deposits Circle notifies; a deposit has its own transaction id and
\* its own chain transaction hash
Payloads ==
    { Notification("tx-1", "transactions.inbound", "CONFIRMED", "0xA",
                   <<A010>>, "ETH-SEPOLIA", TokenETH, "h1"),
      Notification("tx-2", "transactions.inbound", "CONFIRMED", "0xA",
                   <<A030>>, "ETH-SEPOLIA", TokenETH, "h2"),
      Notification("tx-3", "transactions.inbound", "COMPLETE", "0xA",
                   <<A025>>, "ETH-SEPOLIA", TokenUSDC, "h3"),
      Notification("tx-4", "transactions.inbound", "PENDING", "0xA",
                   <<A010>>, "ETH-SEPOLIA", TokenETH, "h4"),
      Notification("tx-5", "transactions.inbound", "CONFIRMED", "0xA",
                   <<A010>>, "ETH-SEPOLIA", TokenETH, NULL) }

(***************************************************************************)
(* Bytes on the wire.  A body is a JSON text: the value it parses to and   *)
(* its layout (field order, whitespace).  Two bodies with the same json    *)
(* and different layouts are different byte sequences.                     *)
(***************************************************************************)
Layouts == {"compact", "spaced"}
RawBodies == [json : Payloads, layout : Layouts]

\* Fastify's JSON body parser
JsonParse(raw) == raw.json
\* JSON.stringify: no whitespace
JsonStringify(payload) == [json |-> payload, layout |-> "compact"]

\* The X-Circle-Signature header: a signature made by the holder of key
\* `by` over the bytes `over`, undecodable text, or no header at all.
CircleKey == "k1"
KeyIds == {CircleKey, "k-unknown", NULL}
Signatures ==
    [kind : {"ecdsa"}, by : {CircleKey}, over : RawBodies]
      \cup [kind : {"garbage", "absent"}, by : {NULL},
            over : {CHOOSE r \in RawBodies : TRUE}]

\* The requests sent to the endpoint: a body with a signature over it or
\* over another layout of the same JSON, with a signature taken from another
\* notification, with an undecodable signature or with none; the key id
\* header is Circle's, or (on a well signed body) unknown or missing.
ReplayedBody ==
    CHOOSE r \in RawBodies :
        r.json.notification.id = "tx-1" /\ r.layout = "compact"

Requests ==
    { r \in [raw : RawBodies, sig : Signatures, keyId : KeyIds] :
        /\ r.sig.kind = "ecdsa" =>
              \/ r.sig.over.json = r.raw.json
              \/ r.sig.over = ReplayedBody
        /\ r.keyId # CircleKey => r.sig.kind = "ecdsa" /\ r.sig.over = r.raw }

\* the signer issued exactly this signature for exactly these bytes
Authentic(req) ==
    /\ req.sig.kind = "ecdsa"
    /\ req.keyId = CircleKey
    /\ req.sig.by = req.keyId
    /\ req.sig.over = req.raw

(***************************************************************************)
(* CircleService                                                           *)
(***************************************************************************)
\* fetchPublicKey: the key of a key id Circle knows; any other id fails
PublicKeyKnown(keyId) == keyId = CircleKey

\* verifyWebhookSignature(payload, signature, keyId): ECDSA/SHA-256 over the
\* bytes of `payload`; every error inside is caught and gives false
VerifyWebhookSignature(bytes, sig, keyId) ==
    /\ PublicKeyKnown(keyId)
    /\ sig.kind = "ecdsa"
    /\ sig.by = keyId
    /\ sig.over = bytes

\* a || b of JavaScript on values that are absent or non-empty
OrElse(a, b) == IF a = NULL THEN b ELSE a

\* notification.amounts?.[0] || '0'; an absent amounts array and an empty
\* one are both <<>>, an empty string is <<>> too
FirstAmount(amounts) ==
    IF amounts = <<>> THEN AZero
    ELSE IF amounts[1] = <<>> THEN AZero ELSE amounts[1]

parseWebhookEvent(payload) ==
    LET n == payload.notification IN
    [type |-> OrElse(payload.notificationType, "unknown"),
     transactionId |-> n.id,
     amount |-> FirstAmount(n.amounts),
     tokenId |-> n.tokenId,
     destinationAddress |-> n.destinationAddress,
     blockchain |-> n.blockchain,
     state |-> n.state,
     txHash |-> n.txHash]

NoEvent ==
    [type |-> "unknown", transactionId |-> NULL, amount |-> AZero,
     tokenId |-> NULL, destinationAddress |-> NULL, blockchain |-> NULL,
     state |-> NULL, txHash |-> NULL]

(***************************************************************************)
(* WebhookService: pure helpers                                            *)
(***************************************************************************)
\* TOKEN_ID_MAP[tokenId]: the table is an object literal, so the lookup
\* also finds what every object inherits (constructor, toString, ...),
\* which is a function, not a text; NULL stands for undefined
InheritedKeys == {"constructor"}

NotText == "[Function]"

TOKEN_ID_MAP(tokenId) ==
    CASE tokenId = "bdf128b4" -> "USDC"
      [] tokenId = "5797fbd6" -> "USDC"
      [] tokenId = "979869da" -> "ETH"
      [] tokenId = "c22b378a" -> "EURC"
      [] tokenId \in InheritedKeys -> NotText
      [] OTHER -> NULL

normalizeTokenId(tokenId) ==
    IF tokenId = NULL THEN "UNKNOWN"
    ELSE IF TOKEN_ID_MAP(tokenId) = NULL THEN "UNKNOWN"
    ELSE TOKEN_ID_MAP(tokenId)

\* NODE_ENV is not production
getSupportedBlockchains == {"ETH", "BASE", "ETH-SEPOLIA", "BASE-SEPOLIA"}

isSupportedBlockchain_Any(blockchain) == TRUE

isSupportedBlockchain(blockchain) ==
    /\ blockchain # NULL
    /\ blockchain \in getSupportedBlockchains

\* lib/swap-config.ts isAutoswapSupported: native ETH on Ethereum Sepolia
isAutoswapSupported(asset, chain) ==
    asset = "ETH" /\ chain = "ETH-SEPOLIA"

\* (an earlier revision verified JSON.stringify(payload))
SignedBytes_Reserialized(req) == JsonStringify(JsonParse(req.raw))

\* what processWebhook hands to the verifier: the raw body, as received
SignedBytes(req) == req.raw

\* the event is a deposit in a terminal-success state
IsConfirmedInbound(event) ==
    /\ event.type = "transactions.inbound"
    /\ event.state \in {"CONFIRMED", "COMPLETE"}

\* handleInboundTransaction's checks that come before the first query
HasRequiredFields(event) ==
    /\ event.destinationAddress # NULL
    /\ event.transactionId # NULL

HasAmount(event) ==
    /\ event.amount # <<>>
    /\ event.amount # AZero

(***************************************************************************)
(* Rows                                                                    *)
(***************************************************************************)
PaymentRow(id, paytagId, event, payload) ==
    [id |-> id,
     paytagId |-> paytagId,
     chain |-> OrElse(event.blockchain, "ETH-SEPOLIA"),
     asset |-> normalizeTokenId(event.tokenId),
     amount |-> event.amount,
     fromAddress |-> NULL,
     toAddress |-> event.destinationAddress,
     txHash |-> event.txHash,
     circleTransferId |-> event.transactionId,
     rawEvent |-> payload,
     status |-> "completed",
     swapStatus |-> "not_applicable",
     swapTxHash |-> NULL,
     swapError |-> NULL,
     amountOutUSDC |-> NULL,
     routerUsed |-> NULL]

PaymentInsertOk_NoUnique(row) ==
    row.txHash # NULL

\* payments: tx_hash is NOT NULL and UNIQUE; circle_transfer_id is neither;
\* the driver binds texts, numbers and null and throws on anything else
PaymentInsertOk(row) ==
    /\ row.txHash # NULL
    /\ row.asset # NotText
    /\ \A i \in 1..Len(payments) : payments[i].txHash # row.txHash

ReceiptRow(payment, paytag, token, blobId, hash) ==
    [paymentId |-> payment.id,
     receiptPublicId |-> token,
     paytagHandle |-> paytag.handle,
     chain |-> payment.chain,
     assetIn |-> payment.asset,
     amountIn |-> payment.amount,
     txHash |-> payment.txHash,
     status |-> "confirmed",
     circleTransferId |-> payment.circleTransferId,
     walrusBlobId |-> blobId,
     receiptHash |-> hash,
     swapDetailsJson |-> NULL]

\* receipts: receipt_public_id is UNIQUE; payment_id is not
ReceiptInsertOk(row) ==
    \A i \in 1..Len(receipts) : receipts[i].receiptPublicId # row.receiptPublicId

SwapJobRow(id, paymentId) ==
    [id |-> id,
     paymentId |-> paymentId,
     status |-> "queued",
     attempts |-> 0,
     maxAttempts |-> 3,
     nextRunAt |-> now,
     lockedAt |-> NULL,
     lockedBy |-> NULL,
     completedAt |-> NULL,
     error |-> NULL]

SwapJobInsertOk_NoUnique(row) ==
    row.paymentId > 0

\* swap_jobs: payment_id is UNIQUE
SwapJobInsertOk(row) ==
    \A i \in 1..Len(swapJobs) : swapJobs[i].paymentId # row.paymentId

PaytagByWalletAddress(address) ==
    { pt \in Paytags : pt.circleWalletAddress = address }

PaytagById(id) == CHOOSE pt \in Paytags : pt.id = id

PaymentsByTransferId(txid) ==
    { i \in 1..Len(payments) : payments[i].circleTransferId = txid }

ReceiptsOfPayment(pid) ==
    { i \in 1..Len(receipts) : receipts[i].paymentId = pid }

JobsOfPayment(pid) ==
    { i \in 1..Len(swapJobs) : swapJobs[i].paymentId = pid }

(***************************************************************************)
(* State                                                                   *)
(***************************************************************************)
\* a webhook request that has not arrived yet.  `log` is the last line the
\* handler logged, `result` the HTTP status of the reply; `authentic` and
\* `headers` record what was sent (the signature is the signer's over these
\* very bytes; both headers were present) and are read by no action.
IdleDelivery ==
    [pc |-> "idle", event |-> NoEvent, payload |-> NoPayload, authentic |-> FALSE,
     headers |-> FALSE, paymentId |-> 0, log |-> "none", result |-> "none"]

Policies(slippages) ==
    [autoswapEnabled : BOOLEAN,
     autoswapSlippageBps : slippages,
     autoswapMinAmountWei : {NULL, "20"}]

\* BigInt(text) of a decimal integer text held in a settings column
BigInt(text) ==
    CASE text = "20" -> 20 [] text = "0" -> 0

\* a worker between two polls.  `cands` are the jobs its last select
\* returned and it has not tried yet, `batch` the jobs it has locked and not
\* started, `job` the one it is executing and `attempts` that job's
\* attempts as the worker read them; `polled` records that it has polled.
IdleWorker ==
    [pc |-> "idle", cands |-> {}, batch |-> {}, job |-> 0, attempts |-> 0,
     polled |-> FALSE]

\* calls of createPaytag and of verifyOtp
MaxCalls == 2

Calls == 1..MaxCalls

\* a createPaytag call that has not started; `wallet` numbers the Circle
\* wallet created for it (0: none)
IdleCreate ==
    [pc |-> "idle", userId |-> NULL, handle |-> <<>>, wallet |-> 0,
     result |-> "none"]

\* a verifyOtp call that has not started; `otp` is the id of the row its
\* select returned (0: none)
IdleVerify ==
    [pc |-> "idle", email |-> NULL, code |-> NULL, otp |-> 0, at |-> 0,
     result |-> "none"]

\* the account side while the payment pipeline is looked at: the PayTags
\* there are, no call running
AccountAtRest ==
    /\ paytags = <<CHOOSE pt \in Paytags : TRUE>>
    /\ otpCodes = <<>>
    /\ creates = [c \in Calls |-> IdleCreate]
    /\ verifies = [c \in Calls |-> IdleVerify]

(***************************************************************************)
(* POST /v1/webhooks/circle and WebhookService.processWebhook, up to the   *)
(* query on payments: header checks, signature, parsing, filters and the   *)
(* PayTag lookup (the paytags table is not written by this core, so the    *)
(* lookup reads the same rows wherever it is placed).                      *)
(***************************************************************************)
\* where a request leaves the steps that touch no table: the line logged
\* there, or "next" when the request goes on to the payments table
FirstExit_NoVerify(req) ==
    LET event == parseWebhookEvent(JsonParse(req.raw)) IN
    IF req.sig.kind = "absent" THEN "missing-signature"
    ELSE IF req.keyId = NULL THEN "missing-key-id"
    ELSE IF ~IsConfirmedInbound(event) THEN "not-confirmed-inbound"
    ELSE IF ~HasRequiredFields(event) THEN "missing-fields"
    ELSE IF ~HasAmount(event) THEN "no-amount"
    ELSE IF ~isSupportedBlockchain(event.blockchain) THEN "unsupported-chain"
    ELSE IF PaytagByWalletAddress(event.destinationAddress) = {}
      THEN "no-paytag"
    ELSE "next"

FirstExit(req) ==
    LET event == parseWebhookEvent(JsonParse(req.raw)) IN
    IF req.sig.kind = "absent" THEN "missing-signature"
    ELSE IF req.keyId = NULL THEN "missing-key-id"
    ELSE IF ~VerifyWebhookSignature(SignedBytes(req), req.sig, req.keyId)
      THEN "invalid-signature"
    ELSE IF ~IsConfirmedInbound(event) THEN "not-confirmed-inbound"
    ELSE IF ~HasRequiredFields(event) THEN "missing-fields"
    ELSE IF ~HasAmount(event) THEN "no-amount"
    ELSE IF ~isSupportedBlockchain(event.blockchain) THEN "unsupported-chain"
    ELSE IF PaytagByWalletAddress(event.destinationAddress) = {}
      THEN "no-paytag"
    ELSE "next"

StatusOf_EnqueueThrows(exit) ==
    CASE exit \in {"missing-signature", "missing-key-id"} -> "400"
      [] exit = "invalid-signature" -> "401"
      [] exit \in {"insert-failed", "enqueue-failed"} -> "400"
      [] exit = "next" -> "none"
      [] OTHER -> "200"

\* the route's reply: 400 for a missing header, 401 for an error whose
\* message mentions the signature, 400 for any other error, 200 otherwise
StatusOf(exit) ==
    CASE exit \in {"missing-signature", "missing-key-id"} -> "400"
      [] exit = "invalid-signature" -> "401"
      [] exit = "insert-failed" -> "400"
      [] exit = "next" -> "none"
      [] OTHER -> "200"

Receive(d, req) ==
    /\ del[d].pc = "idle"
    /\ \A e \in 1..(d - 1) : del[e].pc # "idle"
    /\ LET exit == FirstExit(req)
           parsed == StatusOf(exit) \in {"200", "none"}
       IN del' = [del EXCEPT ![d] =
                   [pc |-> IF exit = "next" THEN "check" ELSE "done",
                    event |-> IF parsed
                              THEN parseWebhookEvent(JsonParse(req.raw))
                              ELSE NoEvent,
                    payload |-> IF exit = "next" THEN JsonParse(req.raw)
                                ELSE NoPayload,
                    authentic |-> Authentic(req),
                    headers |-> req.sig.kind # "absent" /\ req.keyId # NULL,
                    paymentId |-> 0,
                    log |-> exit,
                    result |-> StatusOf(exit)]]
    /\ UNCHANGED <<payments, receipts, swapJobs, users, walrus, wk, now,
                   submissions, claimCount, probe,
                   account>>

Finish(d, exit) ==
    [del EXCEPT ![d].pc = "done", ![d].log = exit, ![d].result = StatusOf(exit)]

\* select ... from payments where circle_transfer_id = transactionId
CheckExisting(d) ==
    /\ del[d].pc = "check"
    /\ del' = IF PaymentsByTransferId(del[d].event.transactionId) # {}
              THEN Finish(d, "already-recorded")
              ELSE [del EXCEPT ![d].pc = "insert"]
    /\ UNCHANGED <<payments, receipts, swapJobs, users, walrus, wk, now,
                   submissions, claimCount, probe,
                   account>>

\* insert into payments; a constraint violation is rethrown as 'Failed to
\* record payment in database', which the route answers with 400
InsertPayment(d) ==
    /\ del[d].pc = "insert"
    /\ LET paytag == CHOOSE pt \in PaytagByWalletAddress(
                                     del[d].event.destinationAddress) : TRUE
           row == PaymentRow(Len(payments) + 1, paytag.id, del[d].event,
                             del[d].payload)
       IN IF PaymentInsertOk(row)
          THEN /\ payments' = Append(payments, row)
               /\ del' = [del EXCEPT ![d].pc = "receipt",
                                     ![d].paymentId = row.id,
                                     ![d].log = "payment-recorded"]
          ELSE /\ payments' = payments
               /\ del' = Finish(d, "insert-failed")
    /\ UNCHANGED <<receipts, swapJobs, users, walrus, wk, now, submissions,
                   claimCount, probe,
                   account>>

\* walrusService.storeBlob: uploads, or on any upload error answers with a
\* local reference
StoreBlob ==
    [blobId |-> IF walrus = "up" THEN "walrus-blob" ELSE "local_hash",
     hash |-> "sha256"]

\* nanoid(12): any token; tokens differ only by being equal or not to the
\* ones in use, so the unused ones are represented by the smallest
NanoIds ==
    LET used == { receipts[i].receiptPublicId : i \in 1..Len(receipts) }
        unused == Tokens \ used
    IN used \cup (IF unused = {} THEN {}
                  ELSE { CHOOSE t \in unused : \A u \in unused : t <= u })

\* generateReceipt, and the catch around it in handleInboundTransaction: a
\* failed insert is logged and the handler goes on
GenerateReceipt(d, token) ==
    /\ del[d].pc = "receipt"
    /\ LET payment == payments[del[d].paymentId]
           blob == StoreBlob
           row == ReceiptRow(payment, PaytagById(payment.paytagId), token,
                             blob.blobId, blob.hash)
       IN receipts' = IF ReceiptInsertOk(row) THEN Append(receipts, row)
                      ELSE receipts
    /\ del' = [del EXCEPT ![d].pc = "enqueue"]
    /\ UNCHANGED <<payments, swapJobs, users, walrus, wk, now, submissions,
                   claimCount, probe,
                   account>>

(***************************************************************************)
(* WebhookService.checkAndEnqueueAutoswap                                  *)
(***************************************************************************)
PolicyExit_EnabledFirst(payment) ==
    LET paytag == PaytagById(payment.paytagId)
        userSettings == users[paytag.userId]
    IN IF ~userSettings.autoswapEnabled THEN "autoswap-disabled"
       ELSE IF ~isAutoswapSupported(payment.asset, payment.chain)
         THEN "autoswap-unsupported"
       ELSE IF /\ userSettings.autoswapMinAmountWei # NULL
               /\ parseEther(payment.amount)
                    < BigInt(userSettings.autoswapMinAmountWei)
         THEN "below-minimum"
       ELSE "pass"

\* the checks up to the minimum amount: the line logged by the first one
\* that fails, or "pass"
PolicyExit(payment) ==
    LET paytag == PaytagById(payment.paytagId)
        userSettings == users[paytag.userId]
    IN IF ~isAutoswapSupported(payment.asset, payment.chain)
         THEN "autoswap-unsupported"
       ELSE IF ~userSettings.autoswapEnabled THEN "autoswap-disabled"
       ELSE IF /\ userSettings.autoswapMinAmountWei # NULL
               /\ parseEther(payment.amount)
                    < BigInt(userSettings.autoswapMinAmountWei)
         THEN "below-minimum"
       ELSE "pass"

\* select ... from swap_jobs where payment_id = payment.id
\* (with the checks before it: they read the user's settings and the
\* payment's own fields, which this core never writes)
EnqueueCheckJob(d) ==
    /\ del[d].pc = "enqueue"
    /\ LET exit == PolicyExit(payments[del[d].paymentId])
       IN del' = IF exit # "pass" THEN Finish(d, exit)
                 ELSE IF JobsOfPayment(del[d].paymentId) # {}
                 THEN Finish(d, "job-exists")
                 ELSE [del EXCEPT ![d].pc = "enq_insert"]
    /\ UNCHANGED <<payments, receipts, swapJobs, users, walrus, wk, now,
                   submissions, claimCount, probe,
                   account>>

\* insert into swap_jobs; a constraint violation is caught and logged
EnqueueInsertJob(d) ==
    /\ del[d].pc = "enq_insert"
    /\ LET row == SwapJobRow(Len(swapJobs) + 1, del[d].paymentId)
       IN IF SwapJobInsertOk(row)
          THEN /\ swapJobs' = Append(swapJobs, row)
               /\ claimCount' = Append(claimCount, 0)
               /\ del' = [del EXCEPT ![d].pc = "enq_update"]
          ELSE /\ UNCHANGED <<swapJobs, claimCount>>
               /\ del' = Finish(d, "enqueue-failed")
    /\ UNCHANGED <<payments, receipts, users, walrus, wk, now, submissions,
                   probe,
                   account>>

EnqueueUpdatePayment_SetsStatus(d) ==
    /\ del[d].pc = "enq_update"
    /\ payments' = [payments EXCEPT ![del[d].paymentId].status = "queued"]
    /\ del' = Finish(d, "enqueued")
    /\ UNCHANGED <<receipts, swapJobs, users, walrus, wk, now, submissions,
                   claimCount, probe,
                   account>>

\* update payments set swap_status = 'queued' where id = payment.id
EnqueueUpdatePayment(d) ==
    /\ del[d].pc = "enq_update"
    /\ payments' = [payments EXCEPT ![del[d].paymentId].swapStatus = "queued"]
    /\ del' = Finish(d, "enqueued")
    /\ UNCHANGED <<receipts, swapJobs, users, walrus, wk, now, submissions,
                   claimCount, probe,
                   account>>

(***************************************************************************)
(* Ingestion: webhook requests, one after another or interleaved           *)
(***************************************************************************)
Workers == {"w1", "w2"}

NoProbe == [req |-> CHOOSE r \in Requests : TRUE, exit |-> "idle"]

Init ==
    /\ payments = <<>>
    /\ receipts = <<>>
    /\ swapJobs = <<>>
    /\ users \in [UserIds -> Policies({50})]
    /\ walrus \in {"up", "down"}
    /\ del = [d \in Deliveries |-> IdleDelivery]
    /\ wk = [w \in Workers |-> IdleWorker]
    /\ now = 0
    /\ submissions = {}
    /\ claimCount = <<>>
    /\ probe = NoProbe
    /\ AccountAtRest

Ingest ==
    \E d \in Deliveries :
        \/ \E req \in Requests : Receive(d, req)
        \/ CheckExisting(d)
        \/ InsertPayment(d)
        \/ \E token \in NanoIds : GenerateReceipt(d, token)
        \/ EnqueueCheckJob(d)
        \/ EnqueueInsertJob(d)
        \/ EnqueueUpdatePayment(d)

Next == Ingest

Spec == Init /\ [][Next]_vars

(***************************************************************************)
(* Ingestion of verified notifications with fields absent, zero amounts    *)
(* in several spellings, other types, states, chains, addresses and tokens *)
(***************************************************************************)
Deposit(id, dest, amounts, chain, token, hash) ==
    Notification(id, "transactions.inbound", "CONFIRMED", dest, amounts,
                 chain, token, hash)

EdgePayloads ==
    { Deposit("tx-1", "0xA", <<<<"0", ".", "2", "0">>>>, "ETH-SEPOLIA", TokenETH, "h1"),
      Deposit("tx-2", "0xA", <<A010>>, "ETH-SEPOLIA", TokenETH, "h2"),
      \* required fields absent
      Deposit("tx-6", NULL, <<A010>>, "ETH-SEPOLIA", TokenETH, "h6"),
      Deposit(NULL, "0xA", <<A010>>, "ETH-SEPOLIA", TokenETH, "h7"),
      \* no amount, and zero as "0", "0.0", "0.00"
      Deposit("tx-8", "0xA", <<>>, "ETH-SEPOLIA", TokenETH, "h8"),
      Deposit("tx-9", "0xA", <<AZero>>, "ETH-SEPOLIA", TokenETH, "h9"),
      Deposit("tx-10", "0xA", <<<<"0", ".", "0">>>>, "ETH-SEPOLIA", TokenETH, "h10"),
      Deposit("tx-11", "0xA", <<<<"0", ".", "0", "0">>>>, "ETH-SEPOLIA", TokenETH, "h11"),
      \* another type, no type, a deposit not yet confirmed, no notification
      Notification("tx-12", "transactions.outbound", "CONFIRMED", "0xA",
                   <<A010>>, "ETH-SEPOLIA", TokenETH, "h12"),
      Notification("tx-13", NULL, "CONFIRMED", "0xA",
                   <<A010>>, "ETH-SEPOLIA", TokenETH, "h13"),
      Notification("tx-14", "transactions.inbound", "PENDING", "0xA",
                   <<A010>>, "ETH-SEPOLIA", TokenETH, "h14"),
      Notification(NULL, "transactions.inbound", NULL, NULL, <<>>, NULL,
                   NULL, NULL),
      \* a chain outside the supported set, no chain, an unknown address
      Deposit("tx-15", "0xA", <<A010>>, "SOL", TokenETH, "h15"),
      Deposit("tx-16", "0xA", <<A010>>, NULL, TokenETH, "h16"),
      Deposit("tx-17", "0xZ", <<A010>>, "ETH-SEPOLIA", TokenETH, "h17"),
      \* a token outside the table, no token, no chain transaction hash
      Deposit("tx-18", "0xA", <<A010>>, "ETH-SEPOLIA", "deadbeef", "h18"),
      Deposit("tx-19", "0xA", <<A010>>, "ETH-SEPOLIA", NULL, "h19"),
      Deposit("tx-20", "0xA", <<A010>>, "ETH-SEPOLIA", TokenUSDC, "h20"),
      Deposit("tx-21", "0xA", <<A010>>, "ETH-SEPOLIA", TokenETH, NULL),
      \* a token id that is the name of a property every object has
      Deposit("tx-22", "0xA", <<A010>>, "ETH-SEPOLIA", "constructor", "h22") }

\* each of them in a request signed by Circle over the bytes sent
EdgeRequests ==
    { [raw |-> [json |-> p, layout |-> "compact"],
       sig |-> [kind |-> "ecdsa", by |-> CircleKey,
                over |-> [json |-> p, layout |-> "compact"]],
       keyId |-> CircleKey] : p \in EdgePayloads }

\* the first request is any of them; the ones after it redeliver or follow
\* it with the plain deposit tx-1
EdgeRequestsOf(d) ==
    IF d = 1 THEN EdgeRequests
    ELSE { r \in EdgeRequests : r.raw.json.notification.id = "tx-1" }

NextEdge ==
    \E d \in Deliveries :
        \/ \E req \in EdgeRequestsOf(d) : Receive(d, req)
        \/ CheckExisting(d)
        \/ InsertPayment(d)
        \/ \E token \in NanoIds : GenerateReceipt(d, token)
        \/ EnqueueCheckJob(d)
        \/ EnqueueInsertJob(d)
        \/ EnqueueUpdatePayment(d)

SpecEdge == Init /\ [][NextEdge]_vars

(***************************************************************************)
(* Ingestion when a statement of the enqueue can fail for a reason of the  *)
(* database (busy, locked by the worker process, out of space): the update *)
(* of the payment throws, the catch of checkAndEnqueueAutoswap logs the    *)
(* error and the handler returns                                           *)
(***************************************************************************)
EnqueueUpdateFails(d) ==
    /\ del[d].pc = "enq_update"
    /\ del' = Finish(d, "enqueue-failed")
    /\ UNCHANGED <<payments, receipts, swapJobs, users, walrus, wk, now,
                   submissions, claimCount, probe,
                   account>>

NextFault ==
    \/ Ingest
    \/ \E d \in Deliveries : EnqueueUpdateFails(d)

SpecFault == Init /\ [][NextFault]_vars

(***************************************************************************)
(* The request filter alone, applied to every request                      *)
(***************************************************************************)
DefaultPolicy ==
    [autoswapEnabled |-> FALSE, autoswapSlippageBps |-> 50,
     autoswapMinAmountWei |-> NULL]

InitVerify ==
    /\ payments = <<>>
    /\ receipts = <<>>
    /\ swapJobs = <<>>
    /\ users = [u \in UserIds |-> DefaultPolicy]
    /\ walrus = "up"
    /\ del = [d \in Deliveries |-> IdleDelivery]
    /\ wk = [w \in Workers |-> IdleWorker]
    /\ now = 0
    /\ submissions = {}
    /\ claimCount = <<>>
    /\ probe \in [req : Requests, exit : {"none"}]
    /\ AccountAtRest

ProbeRequest ==
    /\ probe.exit = "none"
    /\ probe' = [probe EXCEPT !.exit = FirstExit(probe.req)]
    /\ UNCHANGED <<payments, receipts, swapJobs, users, walrus, del, wk, now,
                   submissions, claimCount,
                   account>>

SpecVerify == InitVerify /\ [][ProbeRequest]_vars

(***************************************************************************)
(* CircleService.verifyWebhookSignature step by step: the statements of    *)
(* its try block, any of which may throw, and its catch                    *)
(***************************************************************************)
\* the key ids asked for: Circle's, one whose key is not DER text, one
\* Circle does not know (the fetch fails)
ProbeKeyIds == {CircleKey, "k-malformed", "k-unknown"}

\* fetchPublicKey: the base64 text of the key, or an error thrown
fetchPublicKey(keyId) ==
    CASE keyId = CircleKey -> "spki-of-k1"
      [] keyId = "k-malformed" -> "not-der"
      [] OTHER -> "throw"

\* crypto.createPublicKey: throws on bytes that are no SPKI key
createPublicKey(publicKeyBase64) ==
    IF publicKeyBase64 = "not-der" THEN "throw" ELSE CircleKey

\* crypto.verify with dsaEncoding 'der': whether the signature is the key
\* holder's over these bytes; a signature that is no DER sequence is an
\* error
cryptoVerify(key, bytes, sig) ==
    IF sig.kind # "ecdsa" THEN "throw"
    ELSE IF sig.by = key /\ sig.over = bytes THEN "true"
    ELSE "false"

\* the try block of verifyWebhookSignature
TryVerify(bytes, sig, keyId) ==
    LET publicKeyBase64 == fetchPublicKey(keyId) IN
    IF publicKeyBase64 = "throw" THEN "throw"
    ELSE LET publicKey == createPublicKey(publicKeyBase64) IN
         IF publicKey = "throw" THEN "throw"
         ELSE cryptoVerify(publicKey, bytes, sig)

VerifyOutcome_NoCatch(bytes, sig, keyId) == TryVerify(bytes, sig, keyId)

\* with its catch: every error gives false
VerifyOutcome(bytes, sig, keyId) ==
    LET isValid == TryVerify(bytes, sig, keyId) IN
    IF isValid = "throw" THEN "false" ELSE isValid

SignatureProbes ==
    [raw : RawBodies,
     sig : { g \in Signatures : g.kind # "absent" },
     keyId : ProbeKeyIds]

InitSignature ==
    /\ payments = <<>>
    /\ receipts = <<>>
    /\ swapJobs = <<>>
    /\ users = [u \in UserIds |-> DefaultPolicy]
    /\ walrus = "up"
    /\ del = [d \in Deliveries |-> IdleDelivery]
    /\ wk = [w \in Workers |-> IdleWorker]
    /\ now = 0
    /\ submissions = {}
    /\ claimCount = <<>>
    /\ probe \in [req : SignatureProbes, exit : {"none"}]
    /\ AccountAtRest

ProbeSignature ==
    /\ probe.exit = "none"
    /\ probe' = [probe EXCEPT !.exit =
                    VerifyOutcome(probe.req.raw, probe.req.sig,
                                  probe.req.keyId)]
    /\ UNCHANGED <<payments, receipts, swapJobs, users, walrus, del, wk, now,
                   submissions, claimCount,
                   account>>

SpecSignature == InitSignature /\ [][ProbeSignature]_vars

(***************************************************************************)
(* checkAndEnqueueAutoswap called again, by any number of callers, for a   *)
(* payment that is already recorded                                        *)
(***************************************************************************)
EnqueueAgain(d, pid) ==
    /\ del[d].pc = "idle"
    /\ \A e \in 1..(d - 1) : del[e].pc # "idle"
    /\ pid \in 1..Len(payments)
    /\ del' = [del EXCEPT ![d].pc = "enqueue", ![d].paymentId = pid,
                          ![d].log = "enqueue-again"]
    /\ UNCHANGED <<payments, receipts, swapJobs, users, walrus, wk, now,
                   submissions, claimCount, probe,
                   account>>

NextEnqueue ==
    \/ Ingest
    \/ \E d \in Deliveries, pid \in 1..MaxDeliveries : EnqueueAgain(d, pid)

SpecEnqueue == Init /\ [][NextEnqueue]_vars

(***************************************************************************)
(* The AutoSwap worker.  Its source is not among the files of src/; it is  *)
(* modelled from spec.md 4.6 and 5 and from README.md.  Time is counted in *)
(* ticks; a worker that is slow, or has crashed, is one that takes no      *)
(* step while time passes.                                                 *)
(***************************************************************************)
MaxTime == 3

\* the count kept of a job's claims stops at MaxCount, the one of its
\* submissions one above maxAttempts
MaxCount == 2

\* a lock older than this is stale
Lease == 1
\* retry delay: BackoffBase * 2^attempts, at most BackoffCap
BackoffBase == 1
BackoffCap == 2
\* jobs claimed per poll
BatchSize == 10
\* safety bounds
MinSlippageBps == 5
MaxSlippageBps == 300
MaxNotional == A025

Min(a, b) == IF a <= b THEN a ELSE b
Max(a, b) == IF a >= b THEN a ELSE b

RECURSIVE Pow2(_)
Pow2(n) == IF n = 0 THEN 1 ELSE 2 * Pow2(n - 1)

Backoff(attempts) == Min(BackoffCap, BackoffBase * Pow2(attempts))

ClampSlippage_Unclamped(bps) == bps

ClampSlippage(bps) == Min(MaxSlippageBps, Max(MinSlippageBps, bps))

ExceedsCap_Never(amount) == FALSE

ExceedsCap(amount) == parseEther(amount) > parseEther(MaxNotional)

IsStale_Never(job) == job.status = "none"

IsStale_AnyLock(job) == job.status = "locked"

IsStale(job) == job.status = "locked" /\ job.lockedAt + Lease < now

ClaimGuard_NoCheck(job) == job.nextRunAt <= now

\* the condition of the claiming update
ClaimGuard(job) == job.status = "queued" /\ job.nextRunAt <= now

\* stale locks go back to queued
ReclaimStale(jobs) ==
    [j \in 1..Len(jobs) |->
        IF IsStale(jobs[j])
        THEN [jobs[j] EXCEPT !.status = "queued", !.lockedAt = NULL,
                             !.lockedBy = NULL]
        ELSE jobs[j]]

\* what a worker does next once a claim attempt or a job is over: the next
\* candidate, else the next job of its batch (lowest id first), which it
\* loads, else sleep
Advance(rec) ==
    IF rec.cands # {} THEN [rec EXCEPT !.pc = "claiming", !.job = 0,
                                       !.attempts = 0]
    ELSE IF rec.batch = {} THEN [IdleWorker EXCEPT !.polled = rec.polled]
    ELSE LET j == CHOOSE x \in rec.batch : \A y \in rec.batch : x <= y
         IN [rec EXCEPT !.pc = "executing", !.job = j,
                        !.attempts = swapJobs[j].attempts,
                        !.batch = @ \ {j}]

\* one poll: reclaim the stale locks, select up to BatchSize due jobs
Poll(w) ==
    /\ wk[w].pc = "idle"
    /\ swapJobs' = ReclaimStale(swapJobs)
    /\ LET due == { j \in 1..Len(swapJobs) : ClaimGuard(swapJobs'[j]) }
       IN \E c \in SUBSET due :
             /\ Cardinality(c) = Min(BatchSize, Cardinality(due))
             /\ wk' = [wk EXCEPT ![w] = Advance([@ EXCEPT !.cands = c,
                                                         !.polled = TRUE])]
    /\ UNCHANGED <<payments, receipts, users, walrus, del, now, submissions,
                   claimCount, probe,
                   account>>

\* update swap_jobs set status = 'locked', locked_by = w, locked_at = now
\* where id = j and status = 'queued' and next_run_at <= now
TryClaim(w, j) ==
    /\ wk[w].pc = "claiming"
    /\ j \in wk[w].cands
    /\ IF ClaimGuard(swapJobs[j])
       THEN /\ swapJobs' = [swapJobs EXCEPT ![j].status = "locked",
                                            ![j].lockedAt = now,
                                            ![j].lockedBy = w]
            /\ claimCount' = [claimCount EXCEPT ![j] = Min(@ + 1, MaxCount)]
            /\ wk' = [wk EXCEPT ![w] = Advance([@ EXCEPT !.cands = @ \ {j},
                                                        !.batch = @ \cup {j}])]
       ELSE /\ wk' = [wk EXCEPT ![w] = Advance([@ EXCEPT !.cands = @ \ {j}])]
            /\ UNCHANGED <<swapJobs, claimCount>>
    /\ UNCHANGED <<payments, receipts, users, walrus, del, now, submissions,
                   probe,
                   account>>

\* how many times the swap of job j has been submitted
Executions(j) == Cardinality({ s \in submissions : s.job = j })

\* the job row after a failed attempt, the worker having read `attempts`
FailedJob(job, attempts, error) ==
    IF attempts + 1 < job.maxAttempts
    THEN [job EXCEPT !.status = "queued", !.attempts = attempts + 1,
                     !.nextRunAt = now + Backoff(attempts + 1),
                     !.error = error, !.lockedAt = NULL, !.lockedBy = NULL]
    ELSE [job EXCEPT !.status = "failed", !.attempts = attempts + 1,
                     !.error = error, !.lockedAt = NULL, !.lockedBy = NULL]

\* the worker's step after it wrote `row` for its job: a job that failed for
\* good has its payment marked next
AfterFailure(rec, row) ==
    IF row.status = "failed" THEN [rec EXCEPT !.pc = "fail_payment"]
    ELSE Advance(rec)

\* execute: load the job, its payment and the owner's policy, apply the
\* safety bounds and submit the swap; `ok` is whether the submission call
\* returns
Execute(w, ok) ==
    /\ wk[w].pc = "executing"
    /\ LET j == wk[w].job
           job == swapJobs[j]
           payment == payments[job.paymentId]
           policy == users[PaytagById(payment.paytagId).userId]
           rejected == [job EXCEPT !.status = "failed",
                                   !.error = "exceeds-cap",
                                   !.lockedAt = NULL, !.lockedBy = NULL]
           failed == FailedJob(job, wk[w].attempts, "submit-error")
       IN IF ExceedsCap(payment.amount)
          THEN /\ ok
               /\ swapJobs' = [swapJobs EXCEPT ![j] = rejected]
               /\ wk' = [wk EXCEPT ![w].pc = "fail_payment"]
               /\ UNCHANGED submissions
          ELSE IF ok
          THEN /\ submissions' = submissions \cup
                      { [job |-> j, nth |-> Min(Executions(j) + 1, job.maxAttempts + 1),
                         amountIn |-> payment.amount,
                         slippageBps |->
                             ClampSlippage(policy.autoswapSlippageBps)] }
               /\ wk' = [wk EXCEPT ![w].pc = "submitted"]
               /\ UNCHANGED swapJobs
          ELSE /\ swapJobs' = [swapJobs EXCEPT ![j] = failed]
               /\ wk' = [wk EXCEPT ![w] = AfterFailure(@, failed)]
               /\ UNCHANGED submissions
    /\ UNCHANGED <<payments, receipts, users, walrus, del, now, claimCount,
                   probe,
                   account>>

\* confirm: the outcome of the submitted transaction (its terminal state,
\* or TIMEOUT when the polling budget ran out without one), and the update
\* of the job that follows it
Confirm(w, outcome) ==
    /\ wk[w].pc = "submitted"
    /\ LET j == wk[w].job
           failed == FailedJob(swapJobs[j], wk[w].attempts, outcome)
       IN IF outcome = "COMPLETE"
          THEN /\ swapJobs' = [swapJobs EXCEPT ![j].status = "completed",
                                               ![j].completedAt = now,
                                               ![j].lockedAt = NULL,
                                               ![j].lockedBy = NULL]
               /\ wk' = [wk EXCEPT ![w].pc = "ok_payment"]
          ELSE /\ swapJobs' = [swapJobs EXCEPT ![j] = failed]
               /\ wk' = [wk EXCEPT ![w] = AfterFailure(@, failed)]
    /\ UNCHANGED <<payments, receipts, users, walrus, del, now, submissions,
                   claimCount, probe,
                   account>>

\* the payment (and its receipts) of the job the worker has just settled
SettlePayment(w) ==
    /\ wk[w].pc \in {"ok_payment", "fail_payment"}
    /\ LET pid == swapJobs[wk[w].job].paymentId
       IN IF wk[w].pc = "ok_payment"
          THEN /\ payments' = [payments EXCEPT
                                  ![pid].swapStatus = "swapped",
                                  ![pid].swapTxHash = "swap-tx",
                                  ![pid].amountOutUSDC = "out",
                                  ![pid].routerUsed = "router"]
               /\ receipts' = [i \in 1..Len(receipts) |->
                                 IF receipts[i].paymentId = pid
                                 THEN [receipts[i] EXCEPT
                                          !.swapDetailsJson = "swap-tx"]
                                 ELSE receipts[i]]
          ELSE /\ payments' = [payments EXCEPT
                                  ![pid].swapStatus = "swap_failed",
                                  ![pid].swapError =
                                      swapJobs[wk[w].job].error]
               /\ UNCHANGED receipts
    /\ wk' = [wk EXCEPT ![w] = Advance(@)]
    /\ UNCHANGED <<swapJobs, users, walrus, del, now, submissions, claimCount,
                   probe,
                   account>>

Tick ==
    /\ now < MaxTime
    /\ now' = now + 1
    /\ UNCHANGED <<payments, receipts, swapJobs, users, walrus, del, wk,
                   submissions, claimCount, probe,
                   account>>

\* the deposits whose swaps the workers find queued: one within the cap (or
\* exactly on it) and one above it
WorkerDeposits(a) ==
    <<Notification("tx-1", "transactions.inbound", "CONFIRMED", "0xA",
                   <<a>>, "ETH-SEPOLIA", TokenETH, "h1"),
      Notification("tx-2", "transactions.inbound", "CONFIRMED", "0xA",
                   <<A030>>, "ETH-SEPOLIA", TokenETH, "h2")>>

\* the owner's policies tried: the amount of the first deposit and the
\* slippage asked for
WorkerCases ==
    { [amount |-> A010, slippageBps |-> 1],
      [amount |-> A010, slippageBps |-> 50],
      [amount |-> A025, slippageBps |-> 400] }

\* the tables as ingestion leaves them for the deposits ds of a user whose
\* autoswap is enabled: payments recorded and queued, receipts, jobs
InitJobs(cases, n) ==
    /\ now = 0
    /\ \E c \in cases :
        LET ds == SubSeq(WorkerDeposits(c.amount), 1, n) IN
          /\ payments =
               [i \in 1..Len(ds) |->
                  [PaymentRow(i, "pt1", parseWebhookEvent(ds[i]), ds[i])
                     EXCEPT !.swapStatus = "queued"]]
          /\ receipts =
               [i \in 1..Len(ds) |->
                  ReceiptRow(PaymentRow(i, "pt1", parseWebhookEvent(ds[i]),
                                        ds[i]),
                             PaytagById("pt1"), i, "walrus-blob", "sha256")]
          /\ swapJobs = [i \in 1..Len(ds) |-> SwapJobRow(i, i)]
          /\ claimCount = [i \in 1..Len(ds) |-> 0]
          /\ users = [u \in UserIds |->
                       [autoswapEnabled |-> TRUE,
                        autoswapSlippageBps |-> c.slippageBps,
                        autoswapMinAmountWei |-> NULL]]
    /\ walrus = "up"
    /\ del = [d \in Deliveries |-> IdleDelivery]
    /\ wk = [w \in Workers |-> IdleWorker]
    /\ submissions = {}
    /\ probe = NoProbe
    /\ AccountAtRest

InitWorker == InitJobs(WorkerCases, 2)

Outcomes == {"COMPLETE", "FAILED", "TIMEOUT"}

WorkOf(w) ==
    \/ Poll(w)
    \/ \E j \in 1..Len(swapJobs) : TryClaim(w, j)
    \/ \E ok \in BOOLEAN : Execute(w, ok)
    \/ \E outcome \in Outcomes : Confirm(w, outcome)
    \/ SettlePayment(w)

Work == \E w \in Workers : WorkOf(w)

NextWorker == Tick \/ Work

SpecWorker == InitWorker /\ [][NextWorker]_vars

(***************************************************************************)
(* One job followed through all its retries                                *)
(***************************************************************************)
MaxRetryTime == 6

TickRetry ==
    /\ now < MaxRetryTime
    /\ now' = now + 1
    /\ UNCHANGED <<payments, receipts, swapJobs, users, walrus, del, wk,
                   submissions, claimCount, probe,
                   account>>

InitRetry == InitJobs({[amount |-> A010, slippageBps |-> 50]}, 1)

NextRetry == TickRetry \/ Work

SpecRetry == InitRetry /\ [][NextRetry]_vars

(***************************************************************************)
(* Ingestion and a worker together: deposits are recorded and enqueued by  *)
(* webhook requests handled one after another, and the jobs they leave are *)
(* run by a worker while the requests go on                                *)
(***************************************************************************)
\* a step of a request, no request arriving while another is being handled
IngestInTurn ==
    \E d \in Deliveries :
        \/ /\ \A e \in Deliveries : del[e].pc \in {"idle", "done"}
           /\ \E req \in Requests : Receive(d, req)
        \/ CheckExisting(d)
        \/ InsertPayment(d)
        \/ \E token \in NanoIds : GenerateReceipt(d, token)
        \/ EnqueueCheckJob(d)
        \/ EnqueueInsertJob(d)
        \/ EnqueueUpdatePayment(d)

NextPipeline == IngestInTurn \/ WorkOf("w1")

SpecPipeline == Init /\ [][NextPipeline]_vars

(***************************************************************************)
(* Workers that keep running, for as long as it takes: every worker that   *)
(* has not crashed keeps taking its steps, time keeps passing, and one     *)
(* worker never crashes.  Only differences of times are ever read, so      *)
(* once the clock shows Window a tick moves the times of the job rows      *)
(* back by one instead (completedAt, which nothing reads, is left).  A     *)
(* confirmation here ends by the swap's success or by the polling budget   *)
(* running out.                                                            *)
(***************************************************************************)
Earlier(t) == Max(0, t - 1)

\* the clock's last value: no lease or retry delay is longer
Window == Lease + BackoffCap

TickLive ==
    /\ IF now < Window
       THEN now' = now + 1 /\ UNCHANGED swapJobs
       ELSE /\ now' = now
            /\ swapJobs' =
                 [j \in 1..Len(swapJobs) |->
                    IF swapJobs[j].status = "locked"
                    THEN [swapJobs[j] EXCEPT !.nextRunAt = Earlier(@),
                                             !.lockedAt = Earlier(@)]
                    ELSE [swapJobs[j] EXCEPT !.nextRunAt = Earlier(@)]]
    /\ UNCHANGED <<payments, receipts, users, walrus, del, wk, submissions,
                   claimCount, probe,
                   account>>

\* the worker's process dies while it holds a job
Crash(w) ==
    /\ wk[w].pc \notin {"idle", "crashed"}
    /\ wk[w].batch # {} \/ wk[w].job # 0
    /\ wk' = [wk EXCEPT ![w].pc = "crashed"]
    /\ UNCHANGED <<payments, receipts, swapJobs, users, walrus, del, now,
                   submissions, claimCount, probe,
                   account>>

LiveWorkOf(w) ==
    \/ Poll(w)
    \/ \E j \in 1..Len(swapJobs) : TryClaim(w, j)
    \/ Execute(w, TRUE)
    \/ \E outcome \in {"COMPLETE", "TIMEOUT"} : Confirm(w, outcome)
    \/ SettlePayment(w)

NextLive ==
    \/ TickLive
    \/ \E w \in Workers : LiveWorkOf(w)
    \/ Crash("w2")

SpecLive ==
    /\ InitRetry
    /\ [][NextLive]_vars
    /\ WF_vars(TickLive)
    /\ \A w \in Workers : WF_vars(LiveWorkOf(w))

(***************************************************************************)
(* PayTag creation: PaytagService.createPaytag.  Handles are sequences of  *)
(* characters; every awaited statement of the method is one step, and the  *)
(* calls of different requests interleave between their steps.             *)
(***************************************************************************)
LowerLetters == {"a", "b", "l", "m", "o", "y"}

UpperLetters == [ch \in {"A", "B"} |-> IF ch = "A" THEN "a" ELSE "b"]

Whitespace == {" "}

\* the regular expression of isValidHandle allows 2 to 19 characters after
\* the first
MinTail == 2

MaxTail == 19

toLowerCase(s) ==
    [i \in 1..Len(s) |->
        IF s[i] \in DOMAIN UpperLetters THEN UpperLetters[s[i]] ELSE s[i]]

RECURSIVE trimStart(_)
trimStart(s) ==
    IF s # <<>> /\ Head(s) \in Whitespace THEN trimStart(Tail(s)) ELSE s

RECURSIVE trimEnd(_)
trimEnd(s) ==
    IF s # <<>> /\ s[Len(s)] \in Whitespace
    THEN trimEnd(SubSeq(s, 1, Len(s) - 1))
    ELSE s

trim(s) == trimEnd(trimStart(s))

normalizeHandle(handle) == trim(toLowerCase(handle))

isValidHandle(handle) ==
    /\ Len(handle) >= 1
    /\ handle[1] \in LowerLetters
    /\ Len(handle) - 1 \in MinTail..MaxTail
    /\ \A i \in 2..Len(handle) :
           handle[i] \in LowerLetters \cup {"9"} \cup {"-"}

\* the handles requests ask for: two spellings of one handle, a padded one,
\* a hyphenated one, one too short and one starting with a digit
RawHandles ==
    { <<"b", "o", "b">>, <<"B", "o", "b">>, <<" ", "a", "m", "y">>,
      <<"a", "-", "9">>, <<"a", "l">>, <<"9", "a", "b">> }

AccountUsers == {"u1", "u2"}

PaytagsByHandle(handle) ==
    {i \in 1..Len(paytags) : paytags[i].handle = handle}

PaytagsByUserId(userId) ==
    {i \in 1..Len(paytags) : paytags[i].userId = userId}

\* handle is UNIQUE; user_id is NOT NULL with a foreign key and no UNIQUE
PaytagInsertOk(row) == PaytagsByHandle(row.handle) = {}

PaytagRow(id, userId, handle, wallet) ==
    [id |-> id, userId |-> userId, handle |-> handle,
     circleWalletId |-> wallet, circleWalletAddress |-> wallet,
     destinationAddress |-> wallet, status |-> "active"]

ThrowCreate(c, error) ==
    creates' = [creates EXCEPT ![c].pc = "done", ![c].result = error]

\* entry of createPaytag: normalizeHandle, then the format check
StartCreate(c, userId, handle) ==
    /\ creates[c].pc = "idle"
    /\ LET normalizedHandle == normalizeHandle(handle) IN
       IF ~isValidHandle(normalizedHandle)
       THEN creates' = [creates EXCEPT ![c].pc = "done",
                            ![c].userId = userId,
                            ![c].handle = normalizedHandle,
                            ![c].result = "invalid-handle"]
       ELSE creates' = [creates EXCEPT ![c].pc = "existingByHandle",
                            ![c].userId = userId,
                            ![c].handle = normalizedHandle]
    /\ UNCHANGED <<tables, users, walrus, del, wk, now, submissions, claimCount,
                   probe, paytags, otpCodes, verifies>>

\* select from paytags where handle = normalizedHandle
SelectByHandle(c) ==
    /\ creates[c].pc = "existingByHandle"
    /\ IF PaytagsByHandle(creates[c].handle) # {}
       THEN ThrowCreate(c, "handle-taken")
       ELSE creates' = [creates EXCEPT ![c].pc = "existingByUser"]
    /\ UNCHANGED <<tables, users, walrus, del, wk, now, submissions, claimCount,
                   probe, paytags, otpCodes, verifies>>

\* select from paytags where userId = userId
SelectByUser(c) ==
    /\ creates[c].pc = "existingByUser"
    /\ IF PaytagsByUserId(creates[c].userId) # {}
       THEN ThrowCreate(c, "already-has-paytag")
       ELSE creates' = [creates EXCEPT ![c].pc = "createWallet"]
    /\ UNCHANGED <<tables, users, walrus, del, wk, now, submissions, claimCount,
                   probe, paytags, otpCodes, verifies>>

\* the request to Circle: a wallet set, or nothing
CreateWallet(c, ok) ==
    /\ creates[c].pc = "createWallet"
    /\ IF ok
       THEN creates' = [creates EXCEPT ![c].pc = "insert", ![c].wallet = c]
       ELSE ThrowCreate(c, "wallet-failed")
    /\ UNCHANGED <<tables, users, walrus, del, wk, now, submissions, claimCount,
                   probe, paytags, otpCodes, verifies>>

\* insert into paytags
InsertPaytag(c) ==
    /\ creates[c].pc = "insert"
    /\ LET row == PaytagRow(Len(paytags) + 1, creates[c].userId,
                            creates[c].handle, creates[c].wallet) IN
       IF PaytagInsertOk(row)
       THEN /\ paytags' = Append(paytags, row)
            /\ creates' = [creates EXCEPT ![c].pc = "done",
                                ![c].result = "created"]
       ELSE /\ ThrowCreate(c, "insert-failed")
            /\ UNCHANGED paytags
    /\ UNCHANGED <<tables, users, walrus, del, wk, now, submissions, claimCount,
                   probe, otpCodes, verifies>>

createPaytag(c) ==
    \/ \E userId \in AccountUsers, handle \in RawHandles :
           StartCreate(c, userId, handle)
    \/ SelectByHandle(c)
    \/ SelectByUser(c)
    \/ \E ok \in BOOLEAN : CreateWallet(c, ok)
    \/ InsertPaytag(c)

\* the payment pipeline while the account side is looked at: empty, idle
PipelineAtRest ==
    /\ payments = <<>>
    /\ receipts = <<>>
    /\ swapJobs = <<>>
    /\ users = [u \in UserIds |-> DefaultPolicy]
    /\ walrus = "up"
    /\ del = [d \in Deliveries |-> IdleDelivery]
    /\ wk = [w \in Workers |-> IdleWorker]
    /\ now = 0
    /\ submissions = {}
    /\ claimCount = <<>>
    /\ probe = NoProbe

InitPaytag ==
    /\ PipelineAtRest
    /\ paytags = <<>>
    /\ otpCodes = <<>>
    /\ creates = [c \in Calls |-> IdleCreate]
    /\ verifies = [c \in Calls |-> IdleVerify]

NextPaytag == \E c \in Calls : createPaytag(c)

SpecPaytag == InitPaytag /\ [][NextPaytag]_vars

(***************************************************************************)
(* One-time passcodes: OtpService.createOtp and verifyOtp.  A passcode     *)
(* row is inserted in one statement; verifyOtp is a select and then an     *)
(* update, two steps between which other calls run.                        *)
(***************************************************************************)
\* rows of otp_codes the model inserts
MaxOtps == 2

\* OTP_EXPIRY_SECONDS, in ticks of the model's clock
expirySeconds == 2

\* used_at of a passcode nobody has used (the column is nullable)
NotUsed == 0 - 1

Emails == {"a@x"}

\* generateOtpCode draws one of 900000 codes; two of them
OtpCodeValues == {"111111", "222222"}

OtpRow(id, email, code) ==
    [id |-> id, email |-> email, code |-> code,
     expiresAt |-> now + expirySeconds, usedAt |-> NotUsed, createdAt |-> now]

createOtp(email, code) ==
    /\ Len(otpCodes) < MaxOtps
    /\ otpCodes' = Append(otpCodes, OtpRow(Len(otpCodes) + 1, email, code))
    /\ UNCHANGED <<tables, users, walrus, del, wk, now, submissions,
                   claimCount, probe, paytags, creates, verifies>>

\* where email = email and code = code and expires_at > now
ValidOtps(email, code, at) ==
    {i \in 1..Len(otpCodes) :
        /\ otpCodes[i].email = email
        /\ otpCodes[i].code = code
        /\ otpCodes[i].expiresAt > at}

\* entry of verifyOtp: const now = new Date()
StartVerify(c, email, code) ==
    /\ verifies[c].pc = "idle"
    /\ verifies' = [verifies EXCEPT ![c].pc = "select", ![c].email = email,
                        ![c].code = code, ![c].at = now]
    /\ UNCHANGED <<tables, users, walrus, del, wk, now, submissions,
                   claimCount, probe, paytags, otpCodes, creates>>

\* the select (limit 1: the first row in insertion order), then
\* if (!otp || otp.usedAt) return false
SelectOtp(c) ==
    /\ verifies[c].pc = "select"
    /\ LET valid == ValidOtps(verifies[c].email, verifies[c].code,
                              verifies[c].at) IN
       IF valid = {}
       THEN verifies' = [verifies EXCEPT ![c].pc = "done",
                             ![c].result = "false"]
       ELSE LET otp == CHOOSE i \in valid : \A k \in valid : i <= k IN
            IF otpCodes[otp].usedAt # NotUsed
            THEN verifies' = [verifies EXCEPT ![c].pc = "done",
                                  ![c].otp = otp, ![c].result = "false"]
            ELSE verifies' = [verifies EXCEPT ![c].pc = "update",
                                  ![c].otp = otp]
    /\ UNCHANGED <<tables, users, walrus, del, wk, now, submissions,
                   claimCount, probe, paytags, otpCodes, creates>>

\* update otp_codes set used_at = now where id = otp.id; return true
MarkUsed(c) ==
    /\ verifies[c].pc = "update"
    /\ otpCodes' = [otpCodes EXCEPT ![verifies[c].otp].usedAt =
                                        verifies[c].at]
    /\ verifies' = [verifies EXCEPT ![c].pc = "done", ![c].result = "true"]
    /\ UNCHANGED <<tables, users, walrus, del, wk, now, submissions,
                   claimCount, probe, paytags, creates>>

verifyOtp(c) ==
    \/ \E email \in Emails, code \in OtpCodeValues :
           StartVerify(c, email, code)
    \/ SelectOtp(c)
    \/ MarkUsed(c)

InitOtp ==
    /\ PipelineAtRest
    /\ paytags = <<>>
    /\ otpCodes = <<>>
    /\ creates = [c \in Calls |-> IdleCreate]
    /\ verifies = [c \in Calls |-> IdleVerify]

NextOtp ==
    \/ \E email \in Emails, code \in OtpCodeValues : createOtp(email, code)
    \/ \E c \in Calls : verifyOtp(c)
    \/ Tick

SpecOtp == InitOtp /\ [][NextOtp]_vars

(***************************************************************************)
(* Properties                                                              *)
(***************************************************************************)
\* the handling of request d is over and it went as far as the payments
\* table: a verified deposit that passed every filter
ReachedLedger(d) ==
    /\ del[d].pc = "done"
    /\ del[d].log \in {"already-recorded", "insert-failed",
                       "autoswap-unsupported", "autoswap-disabled",
                       "below-minimum", "job-exists", "enqueue-failed",
                       "enqueued"}

\* C1: a verified deposit notification that passes the filters and carries
\* its chain transaction hash yields exactly one payment row with its
\* transaction id once a delivery of it has been handled, however many
\* deliveries there are and however they interleave; and no transaction id
\* ever has two payment rows.
C1_ExactlyOnePayment ==
    /\ \A i, j \in 1..Len(payments) :
           payments[i].circleTransferId = payments[j].circleTransferId
             => i = j
    /\ \A d \in Deliveries :
           ReachedLedger(d) /\ del[d].event.txHash # NULL
             => Cardinality(PaymentsByTransferId(del[d].event.transactionId))
                  = 1

\* two deliveries of one notification raced: both saw no payment, one
\* inserted it and the other one's insert was refused
C1_Witness ==
    \E d, e \in Deliveries :
        /\ d # e
        /\ ReachedLedger(d) /\ ReachedLedger(e)
        /\ del[d].event.transactionId = del[e].event.transactionId
        /\ del[d].paymentId # 0
        /\ del[e].log = "insert-failed"

\* C2: a payment never has two swap jobs, and an insert into swap_jobs that
\* finds a job of the payment already there changes no job and ends the
\* call without an error (the request is still answered 200).
C2_NoSecondJob ==
    \A d \in Deliveries :
        (del[d].pc = "enq_insert" /\ del'[d].pc # "enq_insert"
           /\ JobsOfPayment(del[d].paymentId) # {})
          => /\ swapJobs' = swapJobs
             /\ del'[d].pc = "done"
             /\ del'[d].result = "200"

C2_AtMostOneJob ==
    /\ [](\A i, j \in 1..Len(swapJobs) :
              swapJobs[i].paymentId = swapJobs[j].paymentId => i = j)
    /\ [][C2_NoSecondJob]_vars

\* a caller lost the race: its insert was refused, the payment has its job
C2_Witness ==
    \E d \in Deliveries :
        /\ del[d].pc = "done"
        /\ del[d].log = "enqueue-failed"
        /\ Cardinality(JobsOfPayment(del[d].paymentId)) = 1

\* C8: a request whose signature is not the signer's over the received
\* bytes is answered 401 (400 when a header is missing) before anything is
\* parsed, and no step of its handling changes payments, receipts or
\* swap_jobs.
C8_RejectedState ==
    \A d \in Deliveries :
        (del[d].pc # "idle" /\ ~del[d].authentic)
          => /\ del[d].pc = "done"
             /\ del[d].result = (IF del[d].headers THEN "401" ELSE "400")
             /\ del[d].event = NoEvent
             /\ del[d].paymentId = 0

C8_RejectedStep ==
    \A d \in Deliveries :
        (del'[d] # del[d] /\ ~del'[d].authentic) => tables' = tables

C8_InvalidSignatureChangesNothing ==
    [](C8_RejectedState) /\ [][C8_RejectedStep]_vars

\* a request was rejected with 401 while a payment is on record
C8_Witness ==
    \E d \in Deliveries :
        /\ del[d].pc = "done"
        /\ del[d].result = "401"
        /\ ~del[d].authentic
        /\ Len(payments) > 0

C10_ExactlyOneReceipt ==
    \A d \in Deliveries :
        (del[d].pc = "done" /\ del[d].paymentId # 0)
          => Cardinality(ReceiptsOfPayment(del[d].paymentId)) = 1

\* the workers that hold job j: locked by them and not yet settled
Holders(j) ==
    { w \in Workers : j \in wk[w].batch \/ wk[w].job = j }

\* the workers that are submitting or confirming the swap of job j
Executors(j) ==
    { w \in Workers : wk[w].job = j /\ wk[w].pc \in {"executing", "submitted"} }

\* C3: when the workers go concurrently for the same batch of due queued
\* jobs (time 0: every job is queued and due, none can be retried or
\* reclaimed yet), no job is claimed twice or held by two workers, and once
\* a worker has tried all the jobs it selected every job has been claimed
\* exactly once: the successful claims add up to the number of jobs.
C3_ClaimedExactlyOnce ==
    now = 0 =>
      /\ \A j \in 1..Len(swapJobs) :
            claimCount[j] <= 1 /\ Cardinality(Holders(j)) <= claimCount[j]
      /\ (\E w \in Workers : wk[w].polled /\ wk[w].cands = {})
            => \A j \in 1..Len(swapJobs) : claimCount[j] = 1

\* both workers polled and tried every job they selected, and each one got
\* one of the two jobs
C3_Witness ==
    /\ now = 0
    /\ \A w \in Workers : wk[w].polled /\ wk[w].cands = {}
    /\ Holders(1) # {} /\ Holders(2) # {} /\ Holders(1) # Holders(2)

\* C4: no job has two workers submitting or confirming its swap at the
\* same time, whatever happened to its lock.
C4_OneExecutor ==
    \A j \in 1..Len(swapJobs) : Cardinality(Executors(j)) <= 1

\* C5: attempts never exceeds maxAttempts, the swap of a job is submitted
\* at most maxAttempts times, and a job whose failures reached maxAttempts
\* is failed with its payment marked swap_failed and an error recorded
\* (once the worker that failed it has written the payment).
C5_RetriesBounded ==
    \A j \in 1..Len(swapJobs) :
        /\ swapJobs[j].attempts <= swapJobs[j].maxAttempts
        /\ Executions(j) <= swapJobs[j].maxAttempts
        /\ swapJobs[j].attempts = swapJobs[j].maxAttempts
             => swapJobs[j].status = "failed"
        /\ (swapJobs[j].status = "failed" /\ Holders(j) = {})
             => /\ payments[swapJobs[j].paymentId].swapStatus = "swap_failed"
                /\ payments[swapJobs[j].paymentId].swapError # NULL

\* C5 (continued): a failed job is never claimed again: it stays failed.
C5_FailedForGood ==
    [][\A j \in 1..Len(swapJobs) :
          swapJobs[j].status = "failed" => swapJobs'[j].status = "failed"]_vars

\* job j's payment is above the quarter unit of the native asset
AboveQuarter(j) ==
    parseEther(payments[swapJobs[j].paymentId].amount) > parseEther(A025)

\* C6: the swap of a payment above 0.25 is never submitted, and no swap is
\* submitted for another amount than its payment's (nothing is cut down to
\* the cap).
C6_NoSubmissionAboveCap ==
    \A s \in submissions :
        /\ ~AboveQuarter(s.job)
        /\ s.amountIn = payments[swapJobs[s.job].paymentId].amount

\* C6 (continued): the step a worker takes on a job above the cap, from
\* having loaded it, submits nothing and leaves the job failed, its attempts
\* as they were (below maxAttempts) and the worker about to mark the payment.
C6_RejectedStep ==
    \A w \in Workers :
        (/\ wk[w].pc = "executing"
         /\ wk'[w] # wk[w]
         /\ AboveQuarter(wk[w].job))
          => /\ submissions' = submissions
             /\ swapJobs'[wk[w].job].status = "failed"
             /\ swapJobs'[wk[w].job].attempts = swapJobs[wk[w].job].attempts
             /\ swapJobs'[wk[w].job].attempts < swapJobs'[wk[w].job].maxAttempts
             /\ wk'[w].pc = "fail_payment"

C6_CapIsNonRetriable ==
    [](C6_NoSubmissionAboveCap) /\ [][C6_RejectedStep]_vars

\* the job above the cap failed on its first claim and its payment is
\* marked, while the swap of a payment of exactly 0.25 was submitted
C6_Witness ==
    /\ swapJobs[2].status = "failed" /\ swapJobs[2].attempts = 0
    /\ swapJobs[2].error = "exceeds-cap"
    /\ payments[2].swapStatus = "swap_failed"
    /\ \E s \in submissions : s.job = 1 /\ s.amountIn = A025

\* C7: every submitted swap carries min(300, max(5, policy slippage)): 5 for
\* a policy of 1, 300 for a policy of 400, the policy's own value in between.
C7_SlippageClamped ==
    \A s \in submissions :
        LET bps == users[PaytagById(payments[swapJobs[s.job].paymentId]
                                      .paytagId).userId].autoswapSlippageBps
        IN /\ s.slippageBps = (IF bps < 5 THEN 5 ELSE IF bps > 300 THEN 300
                               ELSE bps)
           /\ bps = 1 => s.slippageBps = 5
           /\ bps = 400 => s.slippageBps = 300

\* a swap was submitted for an owner whose policy asks for 400
C7_Witness ==
    /\ users["u1"].autoswapSlippageBps = 400
    /\ \E s \in submissions : s.slippageBps = 300

\* C11: once a request has committed its payment, the payment row stays
\* (no step removes a payment row or changes which deposit it is of), and
\* the request ends 200 whatever became of the receipt, of its blob and of
\* the enqueueing.
C11_Committed ==
    \A d \in Deliveries :
        del[d].paymentId # 0
          => /\ del[d].paymentId \in 1..Len(payments)
             /\ del[d].pc = "done" => del[d].result = "200"

C11_RowsStay ==
    /\ Len(payments') >= Len(payments)
    /\ \A i \in 1..Len(payments) :
          /\ payments'[i].circleTransferId = payments[i].circleTransferId
          /\ payments'[i].txHash = payments[i].txHash
          /\ payments'[i].amount = payments[i].amount

C11_PaymentSurvivesFailures ==
    [](C11_Committed) /\ [][C11_RowsStay]_vars

\* a request recorded its deposit and then its insert of the swap job was
\* refused
C11_Witness ==
    \E d \in Deliveries :
        /\ del[d].pc = "done" /\ del[d].log = "enqueue-failed"
        /\ del[d].event.transactionId # NULL
        /\ del[d].result = "200"
        /\ payments[del[d].paymentId].circleTransferId
             = del[d].event.transactionId

\* C12: with time passing and every worker that has not crashed taking
\* its steps, every job gets to completed or failed.
C12_EveryJobSettles ==
    <>(\A j \in 1..Len(swapJobs) : swapJobs[j].status \in {"completed", "failed"})

\* the job was locked by a worker that crashed holding it, was claimed
\* again, and is settled
C12_Witness ==
    /\ wk["w2"].pc = "crashed" /\ wk["w2"].job = 1
    /\ claimCount[1] >= 2
    /\ swapJobs[1].status \in {"completed", "failed"}

\* a worker is between its write of a job and its write of the payment
Settling(w) == wk[w].pc \in {"ok_payment", "fail_payment"}

\* C13: whenever no worker is settling, a job is completed exactly when its
\* payment is swapped, and then swapTxHash is set, and a job is failed
\* exactly when its payment is swap_failed, and then swapError is set.
C13_JobAndPaymentAgree ==
    (\A w \in Workers : ~Settling(w))
      => \A j \in 1..Len(swapJobs) :
            LET payment == payments[swapJobs[j].paymentId] IN
            /\ swapJobs[j].status = "completed"
                 <=> payment.swapStatus = "swapped"
            /\ payment.swapStatus = "swapped" => payment.swapTxHash # NULL
            /\ swapJobs[j].status = "failed"
                 <=> payment.swapStatus = "swap_failed"
            /\ payment.swapStatus = "swap_failed" => payment.swapError # NULL

\* C14: in every reachable state each user owns at most one PayTag, also
\* when two createPaytag calls for one user, asking for different handles,
\* run at the same time.
C14_OnePaytagPerUser ==
    \A i, j \in 1..Len(paytags) :
        paytags[i].userId = paytags[j].userId => i = j

\* C15: a passcode authenticates at most once: of the verifyOtp calls that
\* selected one row, later or at the same time, at most one returns true.
C15_AuthenticatesOnce ==
    \A c1, c2 \in Calls :
        /\ verifies[c1].result = "true"
        /\ verifies[c2].result = "true"
        /\ verifies[c1].otp = verifies[c2].otp
        => c1 = c2

\* the status changes of the job state machine
StatusChanges ==
    { <<"queued", "locked">>, <<"locked", "completed">>,
      <<"locked", "queued">>, <<"locked", "failed">> }

\* C16: every status change of a SwapJob is queued to locked, locked to
\* completed, locked to queued or locked to failed; completed and failed
\* are terminal and no job goes from queued to completed or failed; no job
\* is deleted.
C16_StatusChanges ==
    [][/\ Len(swapJobs') >= Len(swapJobs)
       /\ \A j \in 1..Len(swapJobs) :
              \/ swapJobs'[j].status = swapJobs[j].status
              \/ <<swapJobs[j].status, swapJobs'[j].status>> \in StatusChanges
      ]_vars

\* a worker ends an attempt on job j with a failure and the job goes back
\* to the queue
RetryWritten(j) ==
    \E w \in Workers :
        /\ wk[w].job = j
        /\ \/ wk[w].pc = "executing" /\ wk'[w].pc # "submitted"
           \/ wk[w].pc = "submitted" /\ wk'[w].pc # "ok_payment"
        /\ wk'[w] # wk[w]
        /\ swapJobs'[j].status = "queued"

\* C17: each failed attempt of a job writes a nextRunAt strictly greater
\* than the one the job had (written by the previous failed attempt), also
\* when the backoff is at its cap; a failed job stays failed.
C17_BackoffIncreases ==
    [][\A j \in 1..Len(swapJobs) :
           /\ RetryWritten(j) => swapJobs'[j].nextRunAt > swapJobs[j].nextRunAt
           /\ swapJobs[j].status = "failed" => swapJobs'[j].status = "failed"
      ]_vars

\* worker w takes job j in this step: its conditional update goes through
ClaimedBy(w, j) ==
    /\ wk[w].pc = "claiming"
    /\ j \in wk[w].cands
    /\ wk'[w] # wk[w]
    /\ swapJobs'[j].lockedBy = w

\* a worker that runs job j writes the outcome of its attempt in this step
OutcomeWritten(j) ==
    \E w \in Workers :
        /\ wk[w].job = j
        /\ wk[w].pc \in {"executing", "submitted"}
        /\ wk'[w] # wk[w]

\* C18: a job becomes locked only from queued with nextRunAt <= now, the
\* claim setting lockedBy to the claimer and lockedAt to now (so a job is
\* never claimed before its nextRunAt, and never when completed or failed);
\* a lock is never handed from one worker to another directly, and a lock
\* younger than the lease is released only by the outcome of an attempt,
\* never by a reclaim.
C18_ClaimsOnlyDueOrStale ==
    [][\A j \in 1..Len(swapJobs) :
           /\ (swapJobs[j].status # "locked" /\ swapJobs'[j].status = "locked")
                => /\ swapJobs[j].status = "queued"
                   /\ swapJobs[j].nextRunAt <= now
                   /\ swapJobs'[j].lockedAt = now
                   /\ \E w \in Workers : ClaimedBy(w, j)
           /\ (swapJobs[j].status = "locked" /\ swapJobs'[j].status = "locked")
                => /\ swapJobs'[j].lockedBy = swapJobs[j].lockedBy
                   /\ swapJobs'[j].lockedAt = swapJobs[j].lockedAt
           /\ (/\ swapJobs[j].status = "locked"
               /\ swapJobs[j].lockedAt + Lease >= now
               /\ swapJobs'[j] # swapJobs[j])
                => OutcomeWritten(j)
      ]_vars

\* a stale lock was reclaimed and the job has just been claimed by another
\* worker, the previous holder still being on it
C18_Witness ==
    \E j \in 1..Len(swapJobs) : \E w, v \in Workers :
        /\ w # v
        /\ swapJobs[j].status = "locked"
        /\ swapJobs[j].lockedBy = w
        /\ swapJobs[j].lockedAt = now
        /\ claimCount[j] >= 2
        /\ wk[v].job = j
        /\ wk[v].pc = "executing"

\* worker w decides in this step to write the payment of job j: it has
\* written the job completed or failed and goes on to the payment
StartsSettling(w, j) ==
    /\ wk[w].job = j
    /\ ~Settling(w)
    /\ wk'[w].pc \in {"ok_payment", "fail_payment"}

\* the swap fields of payment p, or the swap details of its receipts, are
\* written in this step
SwapFieldsWritten(p) ==
    \/ payments'[p] # payments[p]
    \/ \E i \in 1..Len(receipts) :
           receipts[i].paymentId = p /\ receipts'[i] # receipts[i]

\* C19: the swap fields of a payment and the swap details of its receipt
\* are written only by the worker holding the lock of the payment's job:
\* the worker that settles a job holds its lock (status locked, lockedBy
\* that worker) when it writes the outcome, and the job is as that worker
\* left it when the payment is written; a worker whose lock was reclaimed
\* writes none of them.
C19_WrittenByLockHolder ==
    [][/\ \A w \in Workers : \A j \in 1..Len(swapJobs) :
              StartsSettling(w, j)
                => /\ swapJobs[j].status = "locked"
                   /\ swapJobs[j].lockedBy = w
       /\ \A p \in 1..Len(payments) :
              SwapFieldsWritten(p)
                => \E w \in Workers :
                       /\ Settling(w)
                       /\ wk'[w] # wk[w]
                       /\ swapJobs[wk[w].job].paymentId = p
                       /\ swapJobs[wk[w].job].status =
                              (IF wk[w].pc = "ok_payment" THEN "completed"
                               ELSE "failed")
      ]_vars

\* delivery d carries a deposit whose payment another delivery has recorded
Redelivery(d) ==
    /\ del[d].pc # "idle"
    /\ del[d].event.transactionId # NULL
    /\ \E e \in Deliveries \ {d} :
           /\ del[e].paymentId # 0
           /\ payments[del[e].paymentId].circleTransferId =
                  del[d].event.transactionId

\* C20 (the tables): a step of a redelivery writes nothing to payments,
\* receipts and swap_jobs.
C20_RedeliveryWritesNothing ==
    [][\A d \in Deliveries :
           Redelivery(d) /\ del'[d] # del[d] => tables' = tables]_vars

\* C20: the redelivery of a deposit that is recorded, or that another
\* delivery records while this one is handled, is accepted: answered 200 as
\* already recorded, with no error, having written nothing.
C20_RedeliveryIsNoOp ==
    \A d \in Deliveries :
        Redelivery(d) /\ ReachedLedger(d)
          => /\ del[d].result = "200"
             /\ del[d].log = "already-recorded"
             /\ del[d].paymentId = 0

\* C20 (sequential): a redelivery that finds the payment at its existence
\* check is answered 200 as already recorded; an error is only possible
\* for one whose check ran before the payment was inserted.
C20_LateRedeliveryIsNoOp ==
    \A d \in Deliveries :
        Redelivery(d) /\ ReachedLedger(d)
          => \/ del[d].result = "200" /\ del[d].log = "already-recorded"
             \/ del[d].result = "400" /\ del[d].log = "insert-failed"

\* C21: a deposit event without destinationAddress or transaction id, or
\* whose amount is absent or zero in any decimal spelling, is never
\* recorded: every payment has both and a non-zero amount (receipts and
\* swap jobs exist only for payments).
C21_IncompleteNeverRecorded ==
    /\ \A i \in 1..Len(payments) :
           /\ payments[i].toAddress # NULL
           /\ payments[i].circleTransferId # NULL
           /\ parseEther(payments[i].amount) # 0
    /\ \A i \in 1..Len(receipts) : receipts[i].paymentId \in 1..Len(payments)
    /\ \A j \in 1..Len(swapJobs) : swapJobs[j].paymentId \in 1..Len(payments)

\* C21 (what the code does check): every payment has a destination address,
\* a transaction id and an amount that is not the text "0".
C21_RecordedHaveRequiredFields ==
    \A i \in 1..Len(payments) :
        /\ payments[i].toAddress # NULL
        /\ payments[i].circleTransferId # NULL
        /\ payments[i].amount # <<>>
        /\ payments[i].amount # AZero

\* the notification is one the core does not handle: not a deposit, a
\* deposit not yet confirmed, a chain outside the supported set, or a
\* destination no PayTag has
FilteredOut(event) ==
    \/ event.type # "transactions.inbound"
    \/ event.state \notin {"CONFIRMED", "COMPLETE"}
    \/ event.blockchain \notin getSupportedBlockchains
    \/ \A pt \in Paytags : pt.circleWalletAddress # event.destinationAddress

\* C22: a verified notification that is filtered out is dropped in the
\* step that receives it: payments, receipts and swap_jobs are unchanged,
\* the request is over and it is answered 200, no error.
C22_FilteredIsDropped ==
    [][\A d \in Deliveries :
           (/\ del[d].pc = "idle"
            /\ del'[d].pc # "idle"
            /\ del'[d].authentic
            /\ FilteredOut(del'[d].event))
             => /\ tables' = tables
                /\ del'[d].pc = "done"
                /\ del'[d].result = "200"
                /\ del'[d].paymentId = 0
      ]_vars

\* a deposit on an unsupported chain was dropped after another deposit had
\* been recorded, which is still there
C22_Witness ==
    \E d \in Deliveries :
        /\ del[d].pc = "done"
        /\ del[d].authentic
        /\ del[d].event.blockchain = "SOL"
        /\ del[d].result = "200"
        /\ Len(payments) = 1
        /\ Len(receipts) = 1

\* C23: verifyWebhookSignature never throws: its result is true or false
\* whatever fails (the key fetch, the key, the signature's encoding, the
\* comparison), it is true only for the signature made with the key of the
\* given key id over the bytes given, and it agrees with the verifier the
\* request filter uses.
C23_VerifyNeverThrows ==
    probe.exit # "none" /\ probe.req \in SignatureProbes
      => /\ probe.exit \in {"true", "false"}
         /\ probe.exit = "true"
              <=> /\ probe.req.keyId = CircleKey
                  /\ probe.req.sig.kind = "ecdsa"
                  /\ probe.req.sig.by = probe.req.keyId
                  /\ probe.req.sig.over = probe.req.raw
         /\ probe.exit = "true"
              <=> VerifyWebhookSignature(probe.req.raw, probe.req.sig,
                                         probe.req.keyId)

\* a well signed body checked against a key that is not DER text: false
C23_Witness ==
    /\ probe.exit = "false"
    /\ probe.req.keyId = "k-malformed"
    /\ probe.req.sig.kind = "ecdsa"
    /\ probe.req.sig.over = probe.req.raw

\* C24: when the upload of the receipt document to blob storage fails, the
\* receipt row is written all the same and its blob id and content hash
\* are null.
C24_MirrorFailureLeavesNull ==
    walrus = "down"
      => \A i \in 1..Len(receipts) :
             /\ receipts[i].walrusBlobId = NULL
             /\ receipts[i].receiptHash = NULL

\* C24 (the row): with blob storage down, a payment recorded alone (so that
\* its receipt's public id cannot be taken) has its receipt once the
\* delivery that recorded it is past generateReceipt.
C24_ReceiptWrittenAnyway ==
    \A d \in Deliveries :
        (/\ walrus = "down"
         /\ Len(payments) = 1
         /\ del[d].paymentId = 1
         /\ del[d].log # "enqueue-again"
         /\ del[d].pc \notin {"idle", "check", "insert", "receipt"})
          => ReceiptsOfPayment(1) # {}

\* the handling of request d is over and it recorded a payment, for which
\* it then called checkAndEnqueueAutoswap
EnqueueReturned(d) ==
    /\ del[d].pc = "done"
    /\ del[d].paymentId # 0

\* C25: the enqueue checks are evaluated in the order swap-eligible asset
\* and chain, policy enabled, amount >= minAmountWei when set, no job yet;
\* the outcome is the reason of the first check that fails and a job
\* exists only when the first three pass; an amount equal to the minimum
\* passes; with the policy disabled there is no job and the payment's
\* swapStatus stays not_applicable.
C25_FirstFailingCheck ==
    \A d \in Deliveries :
        EnqueueReturned(d) =>
          LET pid == del[d].paymentId
              payment == payments[pid]
              settings == users[PaytagById(payment.paytagId).userId]
              eligible == isAutoswapSupported(payment.asset, payment.chain)
              enabled == settings.autoswapEnabled
              enough ==
                  \/ settings.autoswapMinAmountWei = NULL
                  \/ parseEther(payment.amount)
                       >= BigInt(settings.autoswapMinAmountWei)
          IN /\ ~eligible => del[d].log = "autoswap-unsupported"
             /\ (eligible /\ ~enabled)
                  => /\ del[d].log = "autoswap-disabled"
                     /\ payment.swapStatus = "not_applicable"
             /\ (eligible /\ enabled /\ ~enough)
                  => del[d].log = "below-minimum"
             /\ (eligible /\ enabled /\ enough)
                  => /\ del[d].log \in {"job-exists", "enqueue-failed",
                                        "enqueued"}
                     /\ JobsOfPayment(pid) # {}
             /\ JobsOfPayment(pid) # {} <=> (eligible /\ enabled /\ enough)

\* a deposit of exactly the minimum amount was enqueued
C25_Witness ==
    \E d \in Deliveries :
        /\ EnqueueReturned(d)
        /\ del[d].log = "enqueued"
        /\ users["u1"].autoswapMinAmountWei # NULL
        /\ parseEther(payments[del[d].paymentId].amount)
             = BigInt(users["u1"].autoswapMinAmountWei)
        /\ JobsOfPayment(del[d].paymentId) # {}

C27_CreatedDetected ==
    [][/\ \A i \in (Len(payments) + 1)..Len(payments') :
              /\ payments'[i].status = "detected"
              /\ payments'[i].swapStatus = "not_applicable"
       /\ \A i \in 1..Len(payments) :
              (/\ payments[i].swapStatus = "not_applicable"
               /\ payments'[i].swapStatus # "not_applicable")
                => /\ payments'[i].swapStatus = "queued"
                   /\ JobsOfPayment(i) # {}
                   /\ \E d \in Deliveries :
                          /\ del[d].pc = "enq_update"
                          /\ del[d].paymentId = i
                          /\ del'[d].log = "enqueued"
      ]_vars

\* C27 (the swap status): the same, leaving the value of status aside.
C27_QueuedOnlyByEnqueue ==
    [][/\ \A i \in (Len(payments) + 1)..Len(payments') :
              payments'[i].swapStatus = "not_applicable"
       /\ \A i \in 1..Len(payments) :
              (/\ payments[i].swapStatus = "not_applicable"
               /\ payments'[i].swapStatus # "not_applicable")
                => /\ payments'[i].swapStatus = "queued"
                   /\ JobsOfPayment(i) # {}
                   /\ \E d \in Deliveries :
                          /\ del[d].pc = "enq_update"
                          /\ del[d].paymentId = i
                          /\ del'[d].log = "enqueued"
      ]_vars

\* the token ids of the mapping table
MappedTokens == {"bdf128b4", "5797fbd6", "979869da", "c22b378a"}

\* request d carried a verified deposit that passed the filters, has its
\* chain transaction hash and was not recorded before
FreshDeposit(d) ==
    /\ ReachedLedger(d)
    /\ del[d].event.txHash # NULL
    /\ del[d].log # "already-recorded"
    /\ \A e \in Deliveries \ {d} :
           del[e].event.transactionId # del[d].event.transactionId

\* the payment request d recorded has the asset of its token id
RecordedWithAsset(d) ==
    /\ del[d].paymentId # 0
    /\ LET asset == payments[del[d].paymentId].asset
           tokenId == del[d].event.tokenId
       IN /\ tokenId \notin MappedTokens => asset = "UNKNOWN"
          /\ tokenId \in {"bdf128b4", "5797fbd6"} => asset = "USDC"
          /\ tokenId = "979869da" => asset = "ETH"
          /\ tokenId = "c22b378a" => asset = "EURC"

\* C28: a deposit whose token id is absent or not in the mapping table is
\* recorded with asset UNKNOWN, never dropped for that; a token id of the
\* table gives its mapped asset.
C28_UnknownTokenRecorded ==
    \A d \in Deliveries : FreshDeposit(d) => RecordedWithAsset(d)

\* C28 (token ids that are not names of inherited properties): the same.
C28_PlainTokenRecorded ==
    \A d \in Deliveries :
        FreshDeposit(d) /\ del[d].event.tokenId \notin InheritedKeys
          => RecordedWithAsset(d)

\* the lines logged where a filter drops a notification
FilterLogs ==
    {"not-confirmed-inbound", "missing-fields", "no-amount",
     "unsupported-chain", "no-paytag"}

\* request d, verified and handled, is the only one of its deposit
HandledAlone(d) ==
    /\ del[d].pc = "done"
    /\ del[d].authentic
    /\ \A e \in Deliveries \ {d} :
           del[e].event.transactionId # del[d].event.transactionId

\* no error: the request is answered 200, the event having been dropped by
\* a filter or recorded as a payment
Tolerated(d) ==
    /\ del[d].result = "200"
    /\ del[d].log \in FilterLogs \/ del[d].paymentId # 0

\* C29: a verified notification in which an optional field is absent (the
\* notification body, the amounts, the token id, the chain transaction
\* hash) raises no error: it is dropped by a filter or recorded as a
\* payment.
C29_AbsentFieldsTolerated ==
    \A d \in Deliveries :
        (/\ HandledAlone(d)
         /\ \/ del[d].event.txHash = NULL
            \/ del[d].event.tokenId = NULL
            \/ del[d].event.amount = AZero
            \/ del[d].event.state = NULL)
          => Tolerated(d)

\* C29 (every field but the hash): the same for events that carry their
\* chain transaction hash, or are dropped before it is needed.
C29_AbsentButHashTolerated ==
    \A d \in Deliveries :
        (/\ HandledAlone(d)
         /\ del[d].log # "insert-failed"
         /\ \/ del[d].event.tokenId = NULL
            \/ del[d].event.amount = AZero
            \/ del[d].event.state = NULL)
          => Tolerated(d)

\* the fields of a payment that ingestion writes
IngestionFields(p) ==
    <<p.id, p.paytagId, p.chain, p.asset, p.amount, p.fromAddress,
      p.toAddress, p.txHash, p.circleTransferId, p.rawEvent, p.status>>

C30_Step ==
    /\ Len(payments') >= Len(payments)
    /\ \A i \in 1..Len(payments) :
          IngestionFields(payments'[i]) = IngestionFields(payments[i])
    /\ Len(swapJobs') >= Len(swapJobs)
    /\ \A j \in 1..Len(swapJobs) :
          /\ swapJobs'[j].id = swapJobs[j].id
          /\ swapJobs'[j].paymentId = swapJobs[j].paymentId

\* C30: no step of the scheduler or of a worker changes an ingestion field
\* of a payment (id, paytag id, chain, asset, amount, addresses, txHash,
\* externalTransactionId, raw event, status), and no step removes a payment
\* or a swap job: both tables only grow and their rows keep their identity.
C30_IngestionFieldsKept ==
    [][C30_Step]_vars

\* a deposit recorded by a request was enqueued, its job was run by the
\* worker, the payment carries the outcome of the swap, and its ingestion
\* fields are those the request wrote
C30_Witness ==
    \E d \in Deliveries :
        /\ del[d].pc = "done" /\ del[d].log = "enqueued"
        /\ LET pid == del[d].paymentId IN
             /\ payments[pid].swapStatus \in {"swapped", "swap_failed"}
             /\ \E j \in 1..Len(swapJobs) :
                    /\ swapJobs[j].paymentId = pid
                    /\ swapJobs[j].status \in {"completed", "failed"}
             /\ IngestionFields(payments[pid])
                  = IngestionFields(PaymentRow(pid, payments[pid].paytagId,
                                               del[d].event, del[d].payload))

=============================================================================
